---- MODULE Spec2Model ----
(***************************************************************************)
(* Model of the dead-stock pipeline of mahanka-sku-predictor:              *)
(*   utils/processing.py  load_data, process_inventory                     *)
(*   app.py               the script body that loads, validates, processes *)
(*                                                                         *)
(* Cells of a sheet are records.  A number is an exact rational n/d, the   *)
(* pandas NaN/None/NaT is a cell of its own, and so is a text cell.        *)
(* The logistic function is tabulated (see expit).                         *)
(***************************************************************************)
EXTENDS Integers, Sequences, FiniteSets, TLC

\* ------------------------------------------------------------ bounds
MaxSalesRows == 2
MaxInvRows == 1

\* ------------------------------------------------------------ numbers
RECURSIVE GCD(_, _)
GCD(a, b) == IF b = 0 THEN a ELSE GCD(b, a % b)

Abs(a) == IF a < 0 THEN -a ELSE a

\* a float64 value, kept as the exact rational n/d in lowest terms, d > 0
Num(n, d) ==
    LET s == IF d < 0 THEN -1 ELSE 1
        g == GCD(Abs(n), Abs(d))
    IN  [t |-> "num", n |-> (s * n) \div g, d |-> (s * d) \div g]

\* numpy.nan / None / pandas.NaT
NaN == [t |-> "nan", n |-> 0, d |-> 1]

\* a cell holding text that is not a number
Text == [t |-> "text", n |-> 0, d |-> 1]

IsNum(a) == a.t = "num"
IsNaN(a) == a.t = "nan"

\* IEEE arithmetic as pandas applies it to a float column: NaN is absorbing.
\* (The operands are numbers or NaN; a text operand raises, see Raises.)
\* Common factors are cancelled before multiplying to keep the integers small.
Add(a, b) ==
    IF IsNum(a) /\ IsNum(b)
    THEN LET g == GCD(a.d, b.d)
         IN  Num(a.n * (b.d \div g) + b.n * (a.d \div g), (a.d \div g) * b.d)
    ELSE NaN
Neg(a) == IF IsNum(a) THEN [a EXCEPT !.n = -a.n] ELSE NaN
Sub(a, b) == Add(a, Neg(b))
Mul(a, b) ==
    IF IsNum(a) /\ IsNum(b)
    THEN IF a.n = 0 \/ b.n = 0 THEN Num(0, 1)
         ELSE LET g == GCD(Abs(a.n), b.d)
                  h == GCD(Abs(b.n), a.d)
              IN  Num((a.n \div g) * (b.n \div h), (a.d \div h) * (b.d \div g))
    ELSE NaN
\* the divisors of the pipeline are nonzero in the modelled domain
\* (Period_Days >= 1, safe_velocity # 0, Margin # 1, the literal 30)
Div(a, b) ==
    IF IsNum(a) /\ IsNum(b) /\ b.n # 0 THEN Mul(a, Num(b.d, b.n)) ELSE NaN

\* comparisons: any comparison with NaN is False
Lt(a, b) ==
    /\ IsNum(a) /\ IsNum(b)
    /\ LET g == GCD(a.d, b.d) IN a.n * (b.d \div g) < b.n * (a.d \div g)
Gt(a, b) == Lt(b, a)
Le(a, b) ==
    /\ IsNum(a) /\ IsNum(b)
    /\ LET g == GCD(a.d, b.d) IN a.n * (b.d \div g) <= b.n * (a.d \div g)

Zero == Num(0, 1)
One == Num(1, 1)

\* Series.fillna(0)
fillna(a) == IF IsNaN(a) THEN Zero ELSE a

\* Series.clip(lo, hi): NaN stays NaN
clip(a, lo, hi) == IF Lt(a, lo) THEN lo ELSE IF Gt(a, hi) THEN hi ELSE a

\* floor of the rational k * a
FloorMul(k, a) == (k * a.n) \div a.d

\* 10000 * expit(k / 2), rounded, for k = -16 .. 16 (index k + 17)
ExpitTable ==
    << 3, 6, 9, 15, 25, 41, 67, 110, 180, 293, 474, 759, 1192, 1824, 2689, 3775,
       5000,
       6225, 7311, 8176, 8808, 9241, 9526, 9707, 9820, 9890, 9933, 9959, 9975,
       9985, 9991, 9994, 9997 >>

\* scipy.special.expit(x) = 1 / (1 + exp(-x)).  Linear interpolation of the
\* table between half-integer knots (absolute error below 0.004); beyond the
\* table the nearest knot, and exactly 1.0 from x = 37 on, where the float64
\* result rounds to 1.0.  expit(NaN) is NaN.
expit(x) ==
    IF ~IsNum(x) THEN NaN
    ELSE IF Le(Num(37, 1), x) THEN One
    ELSE LET k == FloorMul(2, x)
         IN  IF k >= 16 THEN Num(ExpitTable[33], 10000)
             ELSE IF k < -16 THEN Num(ExpitTable[1], 10000)
             ELSE LET lo == ExpitTable[k + 17]
                      hi == ExpitTable[k + 18]
                      fr == Sub(Mul(Num(2, 1), x), Num(k, 1))
                  IN  Add(Num(lo, 10000), Mul(fr, Num(hi - lo, 10000)))

\* ------------------------------------------------------------ cells
\* an item identifier as read from the sheet: an integer, a text, or empty
IntSku(i) == [t |-> "int", i |-> i, s |-> ""]
StrSku(s) == [t |-> "str", i |-> 0, s |-> s]
NullSku == [t |-> "nan", i |-> 0, s |-> ""]

\* str() of the integers of the modelled domain
IntToStr == (1 :> "1") @@ (2 :> "2")

\* Series.astype(str) on one cell: str(1) = "1", str(nan) = "nan"
astype_str(c) ==
    IF c.t = "int" THEN StrSku(IntToStr[c.i])
    ELSE IF c.t = "nan" THEN StrSku("nan")
    ELSE c

\* a date cell: a Timestamp (h hours after the epoch of the sheet), a text
\* that is no date, or NaT
Ts(h) == [t |-> "ts", h |-> h]
BadDate == [t |-> "text", h |-> 0]
NaT == [t |-> "nat", h |-> 0]

\* pd.to_datetime(cell, errors='coerce')
to_datetime(c) == IF c.t = "ts" THEN c ELSE NaT

\* ------------------------------------------------------------ frames
\* A DataFrame is [cols |-> its column names, rows |-> its rows]; a row is
\* a record of cells.
ReqSales == {"SKU", "Date", "Units_Sold", "Revenue"}
ReqInv == {"SKU", "Current_Stock", "Cost_Price", "Margin"}

Range(q) == {q[i] : i \in 1..Len(q)}

RECURSIVE SumOver(_, _)
\* Series.sum() of a group: NaN cells are skipped, an empty sum is 0
SumOver(q, f) ==
    IF q = <<>> THEN Zero
    ELSE LET r == SumOver(Tail(q), f)
         IN  IF IsNum(Head(q)[f]) THEN Add(Head(q)[f], r) ELSE r

\* min / max of the Timestamps of a group, NaT skipped; NaT when none is left
DateHours(q) == {q[i].Date.h : i \in {j \in 1..Len(q) : q[j].Date.t = "ts"}}
MinDate(q) ==
    LET H == DateHours(q)
    IN  IF H = {} THEN NaT ELSE Ts(CHOOSE h \in H : \A g \in H : h <= g)
MaxDate(q) ==
    LET H == DateHours(q)
    IN  IF H = {} THEN NaT ELSE Ts(CHOOSE h \in H : \A g \in H : h >= g)

\* (Max_Date - Min_Date).dt.days + 1 : whole days of the difference, NaN
\* when a date is NaT
RawPeriodDays(mn, mx) ==
    IF mn.t = "ts" /\ mx.t = "ts"
    THEN Num(((mx.h - mn.h) \div 24) + 1, 1)
    ELSE NaN


\* the period without the fallback to 1
PeriodNoFloor(x) == x

\* lambda x: x if x > 0 else 1
PeriodFloor(x) == IF Gt(x, Zero) THEN x ELSE One

\* groupby sorts its keys: numbers first, then strings
StrRank == ("" :> 0) @@ ("1" :> 1) @@ ("2" :> 2) @@ ("B" :> 3) @@ ("nan" :> 4)
SkuLess(a, b) ==
    \/ a.t = "int" /\ b.t = "str"
    \/ a.t = "int" /\ b.t = "int" /\ a.i < b.i
    \/ a.t = "str" /\ b.t = "str" /\ StrRank[a.s] < StrRank[b.s]

RECURSIVE SortKeys(_)
SortKeys(K) ==
    IF K = {} THEN <<>>
    ELSE LET m == CHOOSE k \in K : \A o \in K \ {k} : SkuLess(k, o)
         IN  <<m>> \o SortKeys(K \ {m})

\* the keys of sales_df.groupby('SKU'): the distinct cell values as read;
\* rows with an empty SKU are dropped
GroupKeys(sales) == {r.SKU : r \in {x \in Range(sales) : x.SKU.t # "nan"}}

GroupRows(sales, k) == SelectSeq(sales, LAMBDA r : r.SKU = k)

\* one row of sales_grouped, lines 45-60
Rollup(sales, k) ==
    LET g  == GroupRows(sales, k)
        tu == SumOver(g, "Units_Sold")
        mn == MinDate(g)
        mx == MaxDate(g)
        pd == PeriodFloor(RawPeriodDays(mn, mx))
    IN  [SKU |-> k, Total_Units_Sold |-> tu, Total_Revenue |-> SumOver(g, "Revenue"),
         Min_Date |-> mn, Max_Date |-> mx, Period_Days |-> pd,
         Avg_Daily_Velocity |-> Div(tu, pd)]

\* sales_grouped before line 64: one row per group key
Grouped(sales) ==
    LET ks == SortKeys(GroupKeys(sales))
    IN  [i \in 1..Len(ks) |-> Rollup(sales, ks[i])]

\* line 64: sales_grouped['SKU'].astype(str)
NormalizeKeys(q) == [i \in 1..Len(q) |-> [q[i] EXCEPT !.SKU = astype_str(q[i].SKU)]]

SalesGrouped(sales) == NormalizeKeys(Grouped(sales))

\* line 41: sales_df['Date'] = pd.to_datetime(sales_df['Date'], errors='coerce'),
\* an assignment into the caller's frame
ParseDates(sales) == [i \in 1..Len(sales) |-> [sales[i] EXCEPT !.Date = to_datetime(sales[i].Date)]]

\* line 65: inventory_df['SKU'] = inventory_df['SKU'].astype(str), an
\* assignment into the caller's frame
NormalizeInventory(inv) == [i \in 1..Len(inv) |-> [inv[i] EXCEPT !.SKU = astype_str(inv[i].SKU)]]

\* the sales columns of an inventory row that matched no rollup row
NoRollup ==
    [Total_Units_Sold |-> NaN, Total_Revenue |-> NaN, Min_Date |-> NaT,
     Max_Date |-> NaT, Period_Days |-> NaN, Avg_Daily_Velocity |-> NaN]

JoinRow(l, r) ==
    [SKU |-> l.SKU, Current_Stock |-> l.Current_Stock, Cost_Price |-> l.Cost_Price,
     Margin |-> l.Margin,
     Total_Units_Sold |-> r.Total_Units_Sold, Total_Revenue |-> r.Total_Revenue,
     Min_Date |-> r.Min_Date, Max_Date |-> r.Max_Date, Period_Days |-> r.Period_Days,
     Avg_Daily_Velocity |-> r.Avg_Daily_Velocity]

RECURSIVE LeftMerge(_, _)
\* line 67: pd.merge(inventory_df, sales_grouped, on='SKU', how='left'):
\* every left row once per right row with an equal key, once with empty
\* right columns when there is none
LeftMerge(left, right) ==
    IF left = <<>> THEN <<>>
    ELSE LET l == Head(left)
             m == SelectSeq(right, LAMBDA r : r.SKU = l.SKU)
         IN  (IF m = <<>> THEN <<JoinRow(l, NoRollup)>>
              ELSE [i \in 1..Len(m) |-> JoinRow(l, m[i])])
             \o LeftMerge(Tail(left), right)

\* lines 70-72
FillSales(r) ==
    [r EXCEPT !.Total_Units_Sold = fillna(r.Total_Units_Sold),
              !.Total_Revenue = fillna(r.Total_Revenue),
              !.Avg_Daily_Velocity = fillna(r.Avg_Daily_Velocity)]

\* line 77: Avg_Daily_Velocity.replace(0, 0.001)
safe_velocity(v) == IF v = Zero THEN Num(1, 1000) ELSE v

\* line 78
DaysOfCover(r) == Div(r.Current_Stock, safe_velocity(r.Avg_Daily_Velocity))


\* the rate without the guard on the denominator
SellThroughNoGuard(r) == Div(r.Total_Units_Sold, Add(r.Total_Units_Sold, r.Current_Stock))

\* lines 83-87
SellThroughRate(r) ==
    IF Gt(Add(r.Total_Units_Sold, r.Current_Stock), Zero)
    THEN Div(r.Total_Units_Sold, Add(r.Total_Units_Sold, r.Current_Stock))
    ELSE Zero

\* line 93
SellingPrice(r) == Div(r.Cost_Price, Sub(One, r.Margin))

\* line 98
DeathRiskBase(doc) == Mul(expit(Div(Sub(doc, Num(60, 1)), Num(30, 1))), Num(100, 1))


\* the penalty with the comparison turned round
RiskPenaltyFast(v) == IF Gt(v, Num(1, 2)) THEN Num(30, 1) ELSE Zero

\* line 101: np.where(Avg_Daily_Velocity < 0.5, 30, 0)
RiskPenalty(v) == IF Lt(v, Num(1, 2)) THEN Num(30, 1) ELSE Zero

\* lines 103-106
DeathRiskScore(base, pen) == clip(Add(base, pen), Zero, Num(100, 1))

\* lines 74-106 on one merged row
Enrich(r0) ==
    LET r    == FillSales(r0)
        doc  == DaysOfCover(r)
        sp   == SellingPrice(r)
        base == DeathRiskBase(doc)
        pen  == RiskPenalty(r.Avg_Daily_Velocity)
    IN  [SKU |-> r.SKU, Current_Stock |-> r.Current_Stock, Cost_Price |-> r.Cost_Price,
         Margin |-> r.Margin,
         Total_Units_Sold |-> r.Total_Units_Sold, Total_Revenue |-> r.Total_Revenue,
         Min_Date |-> r.Min_Date, Max_Date |-> r.Max_Date, Period_Days |-> r.Period_Days,
         Avg_Daily_Velocity |-> r.Avg_Daily_Velocity,
         Days_of_Cover |-> doc, Sell_Through_Rate |-> SellThroughRate(r),
         Selling_Price |-> sp, Stock_Value |-> Mul(r.Current_Stock, sp),
         Death_Risk_Base |-> base, Risk_Penalty |-> pen,
         Death_Risk_Score |-> DeathRiskScore(base, pen)]

\* the arithmetic of lines 78-94 raises TypeError when a column it reads
\* holds a text cell
Raises(inv) ==
    \E i \in 1..Len(inv) :
        inv[i].Current_Stock.t = "text" \/ inv[i].Cost_Price.t = "text" \/ inv[i].Margin.t = "text"

\* the columns of merged_df at line 108
OutCols ==
    ReqInv \cup {"Total_Units_Sold", "Total_Revenue", "Min_Date", "Max_Date", "Period_Days",
                 "Avg_Daily_Velocity", "Days_of_Cover", "Sell_Through_Rate", "Selling_Price",
                 "Stock_Value", "Death_Risk_Base", "Risk_Penalty", "Death_Risk_Score"}

\* the table process_inventory returns (when it does not raise)
process_inventory(sales, inv) ==
    LET m == LeftMerge(NormalizeInventory(inv), SalesGrouped(ParseDates(sales)))
    IN  [i \in 1..Len(m) |-> Enrich(m[i])]

\* ------------------------------------------------------------ workbook
\* What pd.read_excel yields for a sheet: a frame, or None
Frame(cols, rows) == [none |-> FALSE, cols |-> cols, rows |-> rows]
None == [none |-> TRUE, cols |-> {}, rows |-> <<>>]

\* the reading of a sheet at a row that is not its header row
Junk == Frame({"Unnamed: 0"}, <<>>)

\* A sheet is given by its two readings, r0 with header=0 and r1 with
\* header=1; a workbook by whether it opens, the message of the exception
\* when it does not, and its two sheets.
Sheet(present, r0, r1) == [present |-> present, r0 |-> r0, r1 |-> r1]
HeaderAt(h, f) == IF h = 0 THEN Sheet(TRUE, f, Junk) ELSE Sheet(TRUE, Junk, f)
NoSheet == Sheet(FALSE, Junk, Junk)

\* pd.read_excel(f, sheet_name=sheet, header=h) raises for a workbook that
\* does not open and for a sheet that is not there
ReadRaises(f, sheet) == ~f.opens \/ ~f[sheet].present
ReadMessage(f, sheet) == IF ~f.opens THEN f.msg ELSE "Worksheet not found"
read_excel(f, sheet, h) == IF h = 0 THEN f[sheet].r0 ELSE f[sheet].r1


\* read_sheet falling back to the header=1 reading
read_sheet_last(f, sheet) ==
    IF {"SKU"} \subseteq read_excel(f, sheet, 0).cols THEN read_excel(f, sheet, 0)
    ELSE read_excel(f, sheet, 1)

\* load_data.read_sheet, lines 13-26
read_sheet(f, sheet) ==
    IF {"SKU"} \subseteq read_excel(f, sheet, 0).cols THEN read_excel(f, sheet, 0)
    ELSE IF {"SKU"} \subseteq read_excel(f, sheet, 1).cols THEN read_excel(f, sheet, 1)
    ELSE read_excel(f, sheet, 0)

\* the error slot of load_data's result: None or str(e)
NoError == [none |-> TRUE, msg |-> ""]
Error(m) == [none |-> FALSE, msg |-> m]

\* load_data, lines 6-33: (sales_df, inventory_df, error)
load_data(f) ==
    IF ReadRaises(f, "Sales") THEN <<None, None, Error(ReadMessage(f, "Sales"))>>
    ELSE IF ReadRaises(f, "Inventory") THEN <<None, None, Error(ReadMessage(f, "Inventory"))>>
    ELSE <<read_sheet(f, "Sales"), read_sheet(f, "Inventory"), NoError>>

\* `if error:` - None and the empty string are both falsy
Truthy(e) == ~e.none /\ e.msg # ""


\* a validation that looks for the SKU column only
MissingSkuOnly(req, df) == (req \cap {"SKU"}) \ df.cols

\* req - set(df.columns), app.py lines 109-110
MissingCols(req, df) == req \ df.cols

\* ------------------------------------------------------------ inputs
SalesSkus == {IntSku(1), StrSku("1")}
SalesDates == {Ts(0), Ts(36), BadDate}
SalesRevenues == {Num(100, 1)}
InvSkus == {IntSku(1), StrSku("B")}
InvStocks == {Zero, Num(1, 20), Num(9, 100), Num(10, 1), NaN, Text}
InvCosts == {Num(40, 1)}
InvMargins == {Num(1, 2)}

\* an empty Units_Sold cell is drawn on the rows of the first date only
SalesRow ==
    [SKU : SalesSkus, Date : SalesDates, Units_Sold : {Num(5, 1)}, Revenue : SalesRevenues]
    \cup [SKU : SalesSkus, Date : {Ts(0)}, Units_Sold : {NaN}, Revenue : SalesRevenues]
InvRow == [SKU : InvSkus, Current_Stock : InvStocks, Cost_Price : InvCosts, Margin : InvMargins]

SeqsUpTo(S, n) == UNION {[1..k -> S] : k \in 0..n}

\* a small fixed table for the workbooks whose headers vary
SampleSales ==
    << [SKU |-> StrSku("1"), Date |-> Ts(0), Units_Sold |-> Num(5, 1), Revenue |-> Num(100, 1)] >>
SampleInv ==
    << [SKU |-> StrSku("1"), Current_Stock |-> Num(10, 1), Cost_Price |-> Num(40, 1),
        Margin |-> Num(1, 2)] >>

\* the frame under a header row naming the columns cols
Under(cols, req, rows) == Frame(cols, IF req \subseteq cols THEN rows ELSE <<>>)

\* the sheets whose header row, column names or presence vary
SheetVariants(req, rows) ==
    {NoSheet}
    \cup {HeaderAt(h, Under(c, req, rows)) :
            h \in {0, 1}, c \in {req, req \ {"SKU"}, req \ {"SKU", "Margin", "Revenue"},
                                 req \ {"Margin", "Revenue"}}}

Workbook(opens, msg, s, i) == [opens |-> opens, msg |-> msg, Sales |-> s, Inventory |-> i]

\* workbooks with well-formed headers and every table within the bounds
DataWorkbooks ==
    {Workbook(TRUE, "", HeaderAt(0, Frame(ReqSales, s)), HeaderAt(0, Frame(ReqInv, i))) :
        s \in SeqsUpTo(SalesRow, MaxSalesRows), i \in SeqsUpTo(InvRow, MaxInvRows)}

\* workbooks whose sheets vary over a fixed table
HeaderWorkbooks ==
    {Workbook(TRUE, "", s, i) :
        s \in SheetVariants(ReqSales, SampleSales), i \in SheetVariants(ReqInv, SampleInv)}

\* workbooks that do not open; the exception may carry no message
BrokenWorkbooks ==
    {Workbook(FALSE, m, NoSheet, NoSheet) : m \in {"File is not a zip file", ""}}

Workbooks == DataWorkbooks \cup HeaderWorkbooks \cup BrokenWorkbooks

\* ------------------------------------------------------------ state
VARIABLES
    pc,             \* position in the script: start, loaded, process, done
    mode,           \* upload | sample | sample_missing   (app.py lines 85-97)
    file,           \* the workbook behind uploaded_file / sample_path
    sales_df,       \* app.py: sales_df (the frame process_inventory is handed)
    inventory_df,   \* app.py: inventory_df
    error,          \* app.py: error
    sales_grouped,  \* process_inventory: sales_grouped at line 67
    result_df,      \* app.py: result_df, None until process_inventory returns
    shown           \* what st.error / the uncaught-exception box has shown

vars == <<pc, mode, file, sales_df, inventory_df, error, sales_grouped, result_df, shown>>

Init ==
    /\ pc = "start"
    /\ \/ mode = "upload" /\ file \in Workbooks
       \/ mode = "sample" /\ file \in HeaderWorkbooks \cup BrokenWorkbooks
       \/ mode = "sample_missing" /\ file = Workbook(FALSE, "", NoSheet, NoSheet)
    /\ sales_df = None
    /\ inventory_df = None
    /\ error = NoError
    /\ sales_grouped = <<>>
    /\ result_df = None
    /\ shown = {}

Shown(kind, cols, msg) == [kind |-> kind, cols |-> cols, msg |-> msg]

\* app.py line 100: load_data(uploaded_file)
LoadUploaded ==
    /\ pc = "start" /\ mode = "upload"
    /\ sales_df' = load_data(file)[1]
    /\ inventory_df' = load_data(file)[2]
    /\ error' = load_data(file)[3]
    /\ pc' = "loaded"
    /\ UNCHANGED <<mode, file, sales_grouped, result_df, shown>>

\* app.py lines 93-95: the sample file exists
LoadSample ==
    /\ pc = "start" /\ mode = "sample"
    /\ sales_df' = load_data(file)[1]
    /\ inventory_df' = load_data(file)[2]
    /\ error' = load_data(file)[3]
    /\ pc' = "loaded"
    /\ UNCHANGED <<mode, file, sales_grouped, result_df, shown>>

\* app.py lines 96-97
SampleNotFound ==
    /\ pc = "start" /\ mode = "sample_missing"
    /\ sales_df' = None
    /\ inventory_df' = None
    /\ error' = Error("Sample file not found.")
    /\ pc' = "loaded"
    /\ UNCHANGED <<mode, file, sales_grouped, result_df, shown>>

\* app.py lines 102-103
ShowReadError ==
    /\ pc = "loaded" /\ Truthy(error)
    /\ shown' = shown \cup {Shown("read", {}, error.msg)}
    /\ pc' = "done"
    /\ UNCHANGED <<mode, file, sales_df, inventory_df, error, sales_grouped, result_df>>

\* app.py line 109 on sales_df = None: AttributeError, uncaught
ValidateNone ==
    /\ pc = "loaded" /\ ~Truthy(error) /\ sales_df.none
    /\ shown' = shown \cup {Shown("exception", {}, "AttributeError")}
    /\ pc' = "done"
    /\ UNCHANGED <<mode, file, sales_df, inventory_df, error, sales_grouped, result_df>>

\* app.py lines 106-114: a required column is missing
ValidateMissing ==
    /\ pc = "loaded" /\ ~Truthy(error) /\ ~sales_df.none
    /\ LET ms == MissingCols(ReqSales, sales_df)
           mi == MissingCols(ReqInv, inventory_df)
       IN  /\ ms # {} \/ mi # {}
           /\ shown' = shown
                \cup (IF ms # {} THEN {Shown("missing_sales", ms, "")} ELSE {})
                \cup (IF mi # {} THEN {Shown("missing_inv", mi, "")} ELSE {})
    /\ pc' = "done"
    /\ UNCHANGED <<mode, file, sales_df, inventory_df, error, sales_grouped, result_df>>

\* app.py lines 106-115: both sheets have their columns
ValidateOk ==
    /\ pc = "loaded" /\ ~Truthy(error) /\ ~sales_df.none
    /\ MissingCols(ReqSales, sales_df) = {}
    /\ MissingCols(ReqInv, inventory_df) = {}
    /\ pc' = "process"
    /\ UNCHANGED <<mode, file, sales_df, inventory_df, error, sales_grouped, result_df, shown>>

\* app.py line 117, process_inventory returns.  Lines 41 and 65 assign into
\* the frames of the caller.
Process ==
    /\ pc = "process" /\ ~Raises(inventory_df.rows)
    /\ sales_df' = [sales_df EXCEPT !.rows = ParseDates(sales_df.rows)]
    /\ sales_grouped' = SalesGrouped(ParseDates(sales_df.rows))
    /\ inventory_df' = [inventory_df EXCEPT !.rows = NormalizeInventory(inventory_df.rows)]
    /\ result_df' = Frame(OutCols, process_inventory(sales_df.rows, inventory_df.rows))
    /\ pc' = "done"
    /\ UNCHANGED <<mode, file, error, shown>>

\* app.py line 117, process_inventory raises at line 78 or 93: the script
\* stops with the exception shown, after lines 41 and 65 have run
ProcessRaises ==
    /\ pc = "process" /\ Raises(inventory_df.rows)
    /\ sales_df' = [sales_df EXCEPT !.rows = ParseDates(sales_df.rows)]
    /\ sales_grouped' = SalesGrouped(ParseDates(sales_df.rows))
    /\ inventory_df' = [inventory_df EXCEPT !.rows = NormalizeInventory(inventory_df.rows)]
    /\ shown' = shown \cup {Shown("exception", {}, "TypeError")}
    /\ pc' = "done"
    /\ UNCHANGED <<mode, file, error, result_df>>

Next ==
    \/ LoadUploaded
    \/ LoadSample
    \/ SampleNotFound
    \/ ShowReadError
    \/ ValidateNone
    \/ ValidateMissing
    \/ ValidateOk
    \/ Process
    \/ ProcessRaises

Spec == Init /\ [][Next]_vars

\* ------------------------------------------------------------ properties
\* process_inventory has returned a table
Returned == pc = "done" /\ ~result_df.none

\* the frames load_data handed to the script
LoadedSales == load_data(file)[1]
LoadedInventory == load_data(file)[2]

Hundred == Num(100, 1)

\* C1: the returned table has exactly as many rows as the Inventory table
\* handed to process_inventory.
C1_RowCount == Returned => Len(result_df.rows) = Len(LoadedInventory.rows)

\* C2: every row of the returned table has its Death_Risk_Score in [0,100].
C2_ScoreInRange ==
    Returned =>
        \A i \in 1..Len(result_df.rows) :
            /\ Le(Zero, result_df.rows[i].Death_Risk_Score)
            /\ Le(result_df.rows[i].Death_Risk_Score, Hundred)

\* C3: a run is all-or-nothing.  load_data returns both tables and no error,
\* or no table and an error; process_inventory is entered, and a table
\* exists, only with no error and all required columns in both sheets; a
\* finished run has either the table or something shown, never both or none.
C3_AllOrNothing ==
    /\ pc # "start" =>
         \/ error.none /\ ~sales_df.none /\ ~inventory_df.none
         \/ ~error.none /\ sales_df.none /\ inventory_df.none
    /\ (pc = "process" \/ ~result_df.none) =>
         /\ error.none
         /\ ReqSales \subseteq sales_df.cols
         /\ ReqInv \subseteq inventory_df.cols
    /\ pc = "done" => (result_df.none <=> shown # {})

C3_Witness ==
    /\ pc = "done" /\ result_df.none
    /\ error.none
    /\ \E x \in shown : x.kind = "missing_inv" /\ "Margin" \in x.cols

\* a numeric column of the validated tables holds an empty or a text cell
BadNumeric(a) == a.t \in {"nan", "text"}
HasBadNumeric ==
    \/ \E r \in Range(LoadedSales.rows) : BadNumeric(r.Units_Sold) \/ BadNumeric(r.Revenue)
    \/ \E r \in Range(LoadedInventory.rows) :
          BadNumeric(r.Current_Stock) \/ BadNumeric(r.Cost_Price) \/ BadNumeric(r.Margin)
Validated ==
    /\ error.none /\ ~sales_df.none
    /\ ReqSales \subseteq sales_df.cols /\ ReqInv \subseteq inventory_df.cols

\* C4: when a numeric column holds an empty or non-numeric cell after the
\* validation passed, the run ends in a computation error and no table.
C4_ComputationError ==
    (pc = "done" /\ Validated /\ HasBadNumeric) =>
        /\ result_df.none
        /\ \E x \in shown : x.kind = "computation"

\* an output row that matched no rollup row keeps an empty Period_Days
Unmatched(r) == IsNaN(r.Period_Days)

\* the statement of C5 as written: an item without rollup has velocity 0,
\* cover Current_Stock / 0.001 and, whenever Current_Stock > 0, score 100.
C5_AsWritten ==
    Returned =>
        \A i \in 1..Len(result_df.rows) :
            LET r == result_df.rows[i]
            IN  Unmatched(r) =>
                  /\ r.Avg_Daily_Velocity = Zero
                  /\ r.Days_of_Cover = Div(r.Current_Stock, Num(1, 1000))
                  /\ Gt(r.Current_Stock, Zero) => r.Death_Risk_Score = Hundred

\* C5 (amended): an item without rollup has velocity 0 and cover
\* Current_Stock / 0.001, and its score is 100 whenever Current_Stock >= 0.09.
C5_ZeroVelocitySaturation ==
    Returned =>
        \A i \in 1..Len(result_df.rows) :
            LET r == result_df.rows[i]
            IN  Unmatched(r) =>
                  /\ r.Avg_Daily_Velocity = Zero
                  /\ r.Days_of_Cover = Div(r.Current_Stock, Num(1, 1000))
                  /\ Le(Num(9, 100), r.Current_Stock) => r.Death_Risk_Score = Hundred

C5_Witness ==
    /\ Returned
    /\ \E i \in 1..Len(result_df.rows) :
          LET r == result_df.rows[i]
          IN  /\ Unmatched(r)
              /\ r.Current_Stock = Num(9, 100)
              /\ r.Days_of_Cover = Num(90, 1)
              /\ r.Death_Risk_Score = Hundred

\* C6: after the call the two tables handed to process_inventory hold what
\* they held before it.
C6_InputsUnchanged ==
    Returned => sales_df = LoadedSales /\ inventory_df = LoadedInventory

\* the frame C7 expects of a sheet
HasSku(fr) == "SKU" \in fr.cols
NeitherHasSku(sh) == ~HasSku(sh.r0) /\ ~HasSku(sh.r1)
Expected(sh, df) ==
    /\ HasSku(sh.r0) => df = sh.r0
    /\ (~HasSku(sh.r0) /\ HasSku(sh.r1)) => df = sh.r1
    /\ NeitherHasSku(sh) => df = sh.r0

C8_PeriodDays ==
    \A i \in 1..Len(sales_grouped) :
        LET r == sales_grouped[i]
            dated == r.Min_Date.t = "ts" /\ r.Max_Date.t = "ts"
            days == ((r.Max_Date.h - r.Min_Date.h) \div 24) + 1
        IN  /\ r.Period_Days = (IF dated /\ days > 0 THEN Num(days, 1) ELSE One)
            /\ Le(One, r.Period_Days)

C8_Witness ==
    /\ pc = "done"
    /\ \E i \in 1..Len(sales_grouped) :
          /\ sales_grouped[i].Min_Date = NaT
          /\ sales_grouped[i].Period_Days = One
    /\ \E r \in Range(LoadedSales.rows) : r.Date = BadDate

C10_OneRollupPerId ==
    \A i, j \in 1..Len(sales_grouped) :
        i # j => sales_grouped[i].SKU # sales_grouped[j].SKU

====
